---- MODULE Spec2Model ----
(***************************************************************************)
(* Model of src/lib/sw.js, the service worker of web.dev: the page route   *)
(* handler (hydration of a JSON partial into the layout template), the     *)
(* template cache (templateForPartial / updateTemplate), the offline       *)
(* partial, and the install / activate lifecycle with its architecture     *)
(* revision check.                                                         *)
(*                                                                         *)
(* Every async function is a process whose position is the await it is     *)
(* suspended on.  An action is the completion of that awaited operation   *)
(* together with the synchronous code that follows it, up to the next     *)
(* await.  Strings are sequences: a pathname is a sequence of characters,  *)
(* a template or markup string is a sequence of text chunks.               *)
(***************************************************************************)
EXTENDS Integers, Sequences, FiniteSets, TLC

\* ------------------------------------------------------------------ bounds
\* Longest pathname body (the characters after the leading "/").
MaxPathLen == 2
\* Largest build timestamp of a bundle or a partial.
MaxBuiltAt == 2

\* --------------------------------------------------------------- constants
serviceWorkerArchitecture == "v3"
templateUrl == "/template-json"
offlineUrl == "/offline/index.json"
feedXml == <<"/feed.xml">>
headMarker == "<!-- %_HEAD_REPLACE_% -->"
contentMarker == "%_CONTENT_REPLACE_%"
RedirectStatus == 301

\* ------------------------------------------------------------ JS values
Undefined == [kind |-> "undefined"]
Str(s) == [kind |-> "string", v |-> s]
Absent == [kind |-> "absent"]
Malformed == [kind |-> "malformed"]
Json(v) == [kind |-> "json", value |-> v]
Has(o, f) == f \in DOMAIN o

\* Mutant: every status from 200 up counts as ok.
Ok_NoUpperBound(status) == status >= 200

\* Response.ok: a status in the range 200-299.
Ok(status) == status >= 200 /\ status <= 299

\* new Response(body): the status defaults to 200.
NewResponse(body) == [kind |-> "response", status |-> 200, body |-> body]

\* --------------------------------------------------------------- strings
EndsWith(s, suf) ==
  /\ Len(s) >= Len(suf)
  /\ SubSeq(s, Len(s) - Len(suf) + 1, Len(s)) = suf

DotHtml == <<".", "h", "t", "m", "l">>
DotJson == <<".", "j", "s", "o", "n">>
IndexHtml == <<"i", "n", "d", "e", "x">> \o DotHtml

\* The characters of [\w-/] the model draws pathnames from.
PathChars == {"a", "-", "/"}
PathBodies == UNION {[1..n -> PathChars] : n \in 0..MaxPathLen}
\* Pathnames accepted by normalMatch: ^/[\w-/]*(?:|\.html)$
PagePaths == {<<"/">> \o b \o suf : b \in PathBodies, suf \in {<<>>, DotHtml}}
Searches == {<<>>, <<"?", "q">>}
\* The pathnames of the specifications that are not about routing.
FewPaths == {<<"/">>, <<"/", "a">>}

\* ------------------------------------------------------------- matchers
SelfOrigin == "https://web.dev"
FontsStylesheetOrigin == "https://fonts.googleapis.com"
FontsFileOrigin == "https://fonts.gstatic.com"

\* The characters of \w.
WordChars ==
  {"a", "b", "c", "d", "e", "f", "g", "h", "i", "j", "k", "l", "m", "n", "o",
   "p", "q", "r", "s", "t", "u", "v", "w", "x", "y", "z", "_",
   "0", "1", "2", "3", "4", "5", "6", "7", "8", "9"}

\* Index of the last "/" of s, 0 when there is none.
LastSlash(s) ==
  LET at == {i \in 1..Len(s) : s[i] = "/"} IN
  IF at = {} THEN 0 ELSE CHOOSE i \in at : \A j \in at : j <= i

\* partialPathRe.test(p): ^/([\w-]+/)*\w+\.json$
PartialPathRe(p) ==
  /\ Len(p) > Len(DotJson)
  /\ p[1] = "/"
  /\ EndsWith(p, DotJson)
  /\ LET stem == SubSeq(p, 2, Len(p) - Len(DotJson))
         n == Len(stem)
     IN /\ n >= 1
        /\ \A i \in 1..n :
             /\ stem[i] \in WordChars \cup {"-", "/"}
             /\ stem[i] = "/" => i > 1 /\ stem[i - 1] # "/"
        /\ \A i \in (LastSlash(stem) + 1)..n : stem[i] \in WordChars
        /\ LastSlash(stem) < n

\* The regular expression of normalMatch: ^/[\w-/]*(?:|\.html)$
NormalPathRe(p) ==
  /\ Len(p) >= 1
  /\ p[1] = "/"
  /\ LET body == IF EndsWith(p, DotHtml)
                   THEN SubSeq(p, 2, Len(p) - Len(DotHtml))
                   ELSE SubSeq(p, 2, Len(p))
     IN \A i \in 1..Len(body) : body[i] \in WordChars \cup {"-", "/"}

\* new RegExp('/images/.*') tested against the URL: "/images/" anywhere.
ImagesDir == <<"/", "i", "m", "a", "g", "e", "s", "/">>
ImagesRe(p) ==
  \E i \in 1..Len(p) :
    i + Len(ImagesDir) - 1 <= Len(p) /\ SubSeq(p, i, i + Len(ImagesDir) - 1) = ImagesDir

\* matchSameOriginRegExp(re): the URL is of the worker's origin and its
\* pathname passes the regular expression (tested is re.test(url.pathname)).
MatchSameOriginRegExp(url, tested) == url.origin = SelfOrigin /\ tested
PartialMatch(url) == MatchSameOriginRegExp(url, PartialPathRe(url.pathname))
NormalMatch(url) == MatchSameOriginRegExp(url, NormalPathRe(url.pathname))

\* The route the router dispatches a URL to: the first registered route
\* that matches.  A RegExp route matches a cross-origin URL only from its
\* start, so the images route is same-origin.
RouteOf(url) ==
  CASE url.origin = FontsStylesheetOrigin -> "google-fonts-stylesheets"
    [] url.origin = FontsFileOrigin -> "google-fonts-webfonts"
    [] PartialMatch(url) -> "partial"
    [] url.origin = SelfOrigin /\ ImagesRe(url.pathname) -> "images"
    [] NormalMatch(url) -> "page"
    [] OTHER -> "none"

\* URLs of the routes that are a Workbox strategy.
StrategyUrls ==
  {[origin |-> SelfOrigin, pathname |-> <<"/", "a", ".", "j", "s", "o", "n">>],
   [origin |-> SelfOrigin, pathname |-> <<"/", "a", "/", "i", ".", "j", "s", "o", "n">>],
   [origin |-> SelfOrigin, pathname |-> ImagesDir \o <<"a", ".", "p", "n", "g">>],
   [origin |-> SelfOrigin, pathname |-> ImagesDir \o <<"a">>],
   [origin |-> SelfOrigin, pathname |-> ImagesDir \o <<"a", ".", "j", "s", "o", "n">>],
   [origin |-> FontsStylesheetOrigin, pathname |-> <<"/", "c", "s", "s">>],
   [origin |-> FontsFileOrigin, pathname |-> <<"/", "s", "/", "a", ".", "w", "o", "f", "f">>]}

\* pathname.replace(/\.html$/, '.json')
ReplaceHtmlSuffix(p) ==
  IF EndsWith(p, DotHtml) THEN SubSeq(p, 1, Len(p) - Len(DotHtml)) \o DotJson ELSE p

\* Mutant: the redirect drops the query string.
RedirectTarget_NoSearch(pathname, search) == pathname \o <<"/">>

\* The redirect of a pathname with no trailing slash.
RedirectTarget(pathname, search) == pathname \o <<"/">> \o search

NeedsRedirect(pathname) == ~EndsWith(pathname, DotHtml) /\ ~EndsWith(pathname, <<"/">>)

\* Mutant: "index.html" is not appended to a directory pathname.
HtmlPath_NoIndex(pathname) == pathname

\* The pathname normalised to end with ".html".
HtmlPath(pathname) ==
  IF EndsWith(pathname, DotHtml) THEN pathname ELSE pathname \o IndexHtml

PartialPath(pathname) == ReplaceHtmlSuffix(HtmlPath(pathname))

\* Index of the first occurrence of chunk pat in s, 0 when there is none.
RECURSIVE IndexFrom(_, _, _)
IndexFrom(s, pat, i) ==
  IF i > Len(s) THEN 0 ELSE IF s[i] = pat THEN i ELSE IndexFrom(s, pat, i + 1)
IndexOf(s, pat) == IndexFrom(s, pat, 1)

\* The replacement string expanded as String.prototype.replace does for a
\* string pattern: $$ is "$", $& the match, $` and $' the text around it.
RECURSIVE Expand(_, _, _, _)
Expand(rep, matched, before, after) ==
  IF rep = <<>> THEN <<>>
  ELSE LET h == Head(rep)
           t == Expand(Tail(rep), matched, before, after)
       IN CASE h = "$$" -> <<"$">> \o t
            [] h = "$&" -> <<matched>> \o t
            [] h = "$`" -> before \o t
            [] h = "$'" -> after \o t
            [] OTHER -> <<h>> \o t

\* s.replace(pat, rep) with a string pattern: the first occurrence only.
ReplaceFirst(s, pat, rep) ==
  LET i == IndexOf(s, pat) IN
  IF i = 0 THEN s
  ELSE LET before == SubSeq(s, 1, i - 1)
           after == SubSeq(s, i + 1, Len(s))
       IN before \o Expand(rep, pat, before, after) \o after

\* ------------------------------------------------------------- hydration
\* `${x}` of an optional string field: "undefined" when it is missing.
FieldText(p, f) == IF Has(p, f) THEN p[f] ELSE <<"undefined">>
\* x || dflt of an optional string field: the empty string is falsy.
FieldOr(p, f, dflt) == IF Has(p, f) /\ p[f] # <<>> THEN p[f] ELSE dflt

Meta(p) ==
  IF Has(p, "offline") /\ p.offline THEN <<"<meta name=offline>">> ELSE <<>>
Title(p) == <<"<title>">> \o FieldOr(p, "title", <<"web.dev">>) \o <<"</title>">>
RssHref(p) == FieldOr(p, "rss", feedXml)
RssTitle(p) ==
  IF ~(Has(p, "rss") /\ p.rss = feedXml)
    THEN FieldText(p, "title") \o <<" on web.dev">>
    ELSE <<"web.dev feed">>
Rss(p) ==
  <<"<link href=">> \o RssHref(p) \o <<" data-title=">> \o RssTitle(p) \o <<"/>">>
HeadString(p) == Meta(p) \o <<"\n">> \o Title(p) \o <<"\n">> \o Rss(p)

\* layoutTemplate.replace(head marker, head).replace(content marker, raw)
Hydrate(layoutTemplate, p) ==
  ReplaceFirst(ReplaceFirst(layoutTemplate, headMarker, HeadString(p)),
               contentMarker, p.raw)

\* ------------------------------------------------------------------ data
\* The template bundles the template endpoint can serve.  An empty
\* resourcesVersion is a development build, which precaches nothing.
ResourceVersions == {"", "r1", "r2"}
Template(rv, b) ==
  <<"<html ", rv, ToString(b), "><head>", headMarker, "</head><body>",
    contentMarker, "</body></html>">>
Manifest(rv) == IF rv = "" THEN <<>> ELSE <<[url |-> offlineUrl]>>
Bundles ==
  {[template |-> Template(rv, b), manifest |-> Manifest(rv),
    resourcesVersion |-> rv, builtAt |-> b] :
     rv \in ResourceVersions, b \in 1..MaxBuiltAt}

\* The partials the origin can serve: resourcesVersion and builtAt are
\* optional, and so are title and rss.
PartialContents ==
  {[raw |-> <<"<p>hi</p>">>, title |-> <<"Hi">>],
   [raw |-> <<"<p>x</p>">>, rss |-> <<"/x.xml">>]}
\* A partial with its optional build fields: "" and 0 stand for an omitted
\* resourcesVersion and an omitted builtAt.
WithBuild(c, rv, b) ==
  c @@ (IF rv = "" THEN [raw |-> c.raw] ELSE [resourcesVersion |-> rv])
    @@ (IF b = 0 THEN [raw |-> c.raw] ELSE [builtAt |-> b])
Partials ==
  {WithBuild(c, rv, b) : c \in PartialContents, rv \in ResourceVersions, b \in 0..MaxBuiltAt}

\* The offline partial the build publishes at /offline/index.json.
OfflinePartials ==
  {[offline |-> TRUE, raw |-> <<"<h1>Offline</h1>">>, title |-> <<"Offline">>,
    resourcesVersion |-> "r1", builtAt |-> b] : b \in 1..MaxBuiltAt}

\* The in-memory substitute of offlinePartialResponse.
DevOfflinePartial == [offline |-> TRUE, raw |-> <<"<h1>Dev offline</h1>">>, title |-> <<>>]

\* The partial the origin serves, with status 404, for a page it does not have.
NotFoundPartial == [raw |-> <<"<h1>404</h1>">>, title |-> <<"Not found">>]

\* Partials whose strings hold what String.prototype.replace treats
\* specially: a replacement pattern or the text of a marker.
HydrateTitles == {<<"Hi">>, <<"$&">>, <<contentMarker>>}
HydrateRaws == {<<"<p>hi</p>">>, <<"<p>", "$&", "</p>">>, <<"<p>", headMarker, "</p>">>}
HydrateContents ==
  {[raw |-> raw] : raw \in HydrateRaws}
    \cup {[raw |-> raw, title |-> title] : raw \in HydrateRaws, title \in HydrateTitles}
    \cup {[raw |-> raw, title |-> title, rss |-> rss] :
             raw \in HydrateRaws, title \in HydrateTitles, rss \in {feedXml, <<"/x.xml">>}}
HydratePartials == {WithBuild(c, "r1", 1) : c \in HydrateContents}

Throw == [kind |-> "throw"]
\* What partialStrategy.handle can settle with: a throw, a non-ok response,
\* or an ok response whose body is a partial or is not JSON.
StrategyOutcomes ==
  {Throw, [kind |-> "response", status |-> 404, body |-> Json(NotFoundPartial)]}
    \cup {NewResponse(Json(p)) : p \in Partials}
    \cup {NewResponse(Malformed)}
HydrateOutcomes == {Throw} \cup {NewResponse(Json(p)) : p \in HydratePartials}
\* What fetch(templateUrl) can settle with.
TemplateFetchOutcomes ==
  {Throw, NewResponse(Malformed)} \cup {NewResponse(Json(b)) : b \in Bundles}

\* ----------------------------------------------------------------- state
ReqIds == {"r1", "r2"}
UpdateTasks == ReqIds \cup {"install"}
LogTasks == UpdateTasks \cup {"activate"}
ClientIds == {"c1", "c2", "c3"}
CacheUrls == {templateUrl, offlineUrl}

VARIABLES
  idbArch,      \* the revision store's 'arch' key, "none" when never written
  regActive,    \* self.registration.active is non-null at install
  replacingPreviousServiceWorker,
  coreCache,    \* the webdev-core cache: url -> response or Absent
  pendingPut,   \* the cache.put each updateTemplate issued and did not await
  runtimeCache, \* the legacy Workbox runtime cache exists
  clients,      \* the clients in scope
  sw,           \* position of the install handler / worker state
  act,          \* position of the architecture 'activate' listener
  previousArchitecture, \* what idb.get gave that listener, "unread" before
  del,          \* position of the cache-deleting 'activate' listener
  req,          \* the page route handler of each request
  ut,           \* the updateTemplate call of each task
  log           \* the calls each task has made, in order

vars == <<idbArch, regActive, replacingPreviousServiceWorker, coreCache,
          pendingPut, runtimeCache, clients, sw, act, previousArchitecture, del,
          req, ut, log>>

lifeVars == <<idbArch, regActive, replacingPreviousServiceWorker, runtimeCache,
              clients, sw, act, previousArchitecture, del>>

NoResult == [kind |-> "none"]
\* The catch handler of a request: its position, the calls it has made and
\* what it resolved with.
IdleCatch == [pc |-> "idle", calls |-> <<>>, result |-> NoResult]
IdleReq ==
  [pc |-> "idle", origin |-> SelfOrigin, pathname |-> <<>>, search |-> <<>>,
   partialPath |-> <<>>, strategyThrew |-> FALSE,
   response |-> Absent, partial |-> Absent, cached |-> Absent,
   layoutTemplate |-> Absent, result |-> NoResult, caught |-> IdleCatch]
IdleUt == [pc |-> "idle", response |-> Absent, raw |-> Absent, failed |-> "none"]

\* Mutant: the manifest is not deleted before the bundle is stored.
StripManifest_Keep(raw) == raw

\* delete raw.manifest; new Response(JSON.stringify(raw))
StripManifest(raw) == [f \in DOMAIN raw \ {"manifest"} |-> raw[f]]
StoredBundle(raw) == NewResponse(Json(StripManifest(raw)))

\* The core cache as an earlier worker running this code can have left it.
CacheStates ==
  {[u \in CacheUrls |->
      IF u = templateUrl THEN t ELSE o] :
     t \in {Absent} \cup {StoredBundle(b) : b \in Bundles},
     o \in {Absent} \cup {NewResponse(Json(p)) : p \in OfflinePartials}}

InitClients(active) ==
  [c \in ClientIds |->
     [type |-> IF c = "c3" THEN "sharedworker" ELSE "window",
      url |-> <<"/", c>>,
      controller |-> IF c = "c1" /\ active THEN "old" ELSE "none",
      navigatedTo |-> Absent]]

Init ==
  /\ idbArch \in {"none", "v2", serviceWorkerArchitecture}
  /\ regActive \in BOOLEAN
  /\ replacingPreviousServiceWorker = FALSE
  /\ coreCache \in CacheStates
  /\ pendingPut = [t \in UpdateTasks |-> Absent]
  /\ runtimeCache \in BOOLEAN
  /\ clients = InitClients(regActive)
  /\ sw = "parsed"
  /\ act = "idle"
  /\ previousArchitecture = "unread"
  /\ del = "idle"
  /\ req = [r \in ReqIds |-> IdleReq]
  /\ ut = [t \in UpdateTasks |-> IdleUt]
  /\ log = [t \in LogTasks |-> <<>>]

Append1(t, calls) == [log EXCEPT ![t] = @ \o calls]

\* ------------------------------------------------- offlinePartialResponse
\* Mutant: the cached offline partial is never read.
OfflinePartialResponse_DevOnly(cache) ==
  [kind |-> "response", status |-> 200,
   body |-> [kind |-> "json",
             value |-> [offline |-> TRUE, raw |-> <<"<h1>Dev offline</h1>">>,
                        title |-> <<>>]]]

\* The cached /offline/index.json of the core cache, or the in-memory
\* substitute when it is not cached.
OfflinePartialResponse(cache) ==
  IF cache[offlineUrl] = Absent
    THEN NewResponse(Json(DevOfflinePartial))
    ELSE cache[offlineUrl]

\* ------------------------------------------------------- updateTemplate
\* `return template` of updateTemplate: the template string itself.
UpdateTemplateResult(raw) == Str(raw.template)

\* updateTemplate() is called: fetch(templateUrl) is issued.
CallUpdateTemplate(t) ==
  ut' = [ut EXCEPT ![t] = [IdleUt EXCEPT !.pc = "fetch"]]

\* fetch(templateUrl) settles; networkResponse.json() is issued.
UTFetchDone(t, outcome) ==
  /\ ut[t].pc = "fetch"
  /\ ut' = [ut EXCEPT ![t] =
              IF outcome = Throw
                THEN [@ EXCEPT !.pc = "threw", !.failed = "fetch"]
                ELSE [@ EXCEPT !.pc = "json", !.response = outcome]]
  /\ UNCHANGED <<lifeVars, coreCache, pendingPut, req, log>>

\* networkResponse.json() settles; caches.open(webdevCore) is issued.
UTJsonDone(t) ==
  /\ ut[t].pc = "json"
  /\ ut' = [ut EXCEPT ![t] =
              IF ut[t].response.body = Malformed
                THEN [@ EXCEPT !.pc = "threw", !.failed = "json"]
                ELSE [@ EXCEPT !.pc = "open", !.raw = ut[t].response.body.value]]
  /\ UNCHANGED <<lifeVars, coreCache, pendingPut, req, log>>

\* Mutant: the bundle is not written when the precache is issued.
UTOpened_PrecacheOnly(t) ==
  /\ ut[t].pc = "open"
  /\ ut' = [ut EXCEPT ![t] = [@ EXCEPT !.pc = "addAll"]]
  /\ log' = Append1(t, <<"cache.addAll">>)
  /\ UNCHANGED <<lifeVars, coreCache, pendingPut, req>>

\* caches.open settles: the manifest is deleted from raw, cache.put of the
\* stripped bundle is issued and not awaited, cache.addAll is issued.
UTOpened(t) ==
  /\ ut[t].pc = "open"
  /\ pendingPut' = [pendingPut EXCEPT ![t] = StoredBundle(ut[t].raw)]
  /\ ut' = [ut EXCEPT ![t] = [@ EXCEPT !.pc = "addAll"]]
  /\ log' = Append1(t, <<"cache.put", "cache.addAll">>)
  /\ UNCHANGED <<lifeVars, coreCache, req>>

\* A cache.put that was issued completes.
CachePutDone(t) ==
  /\ pendingPut[t] # Absent
  /\ coreCache' = [coreCache EXCEPT ![templateUrl] = pendingPut[t]]
  /\ pendingPut' = [pendingPut EXCEPT ![t] = Absent]
  /\ UNCHANGED <<lifeVars, req, ut, log>>

\* The urls cache.addAll is given: manifest.map(({url}) => url)
ManifestUrls(manifest) == {manifest[i].url : i \in DOMAIN manifest}

\* cache.addAll settles.  It rejects, storing nothing, when a fetch fails or
\* answers with a non-ok status; otherwise every url is stored.
UTAddAllDone(t, ok, offline) ==
  /\ ut[t].pc = "addAll"
  /\ ~ok => ut[t].raw.manifest # <<>>
  /\ IF ok
       THEN /\ coreCache' =
                 [u \in CacheUrls |->
                    IF u \in ManifestUrls(ut[t].raw.manifest) /\ u = offlineUrl
                      THEN NewResponse(Json(offline))
                      ELSE coreCache[u]]
            /\ ut' = [ut EXCEPT ![t] = [@ EXCEPT !.pc = "returned"]]
       ELSE /\ UNCHANGED coreCache
            /\ ut' = [ut EXCEPT ![t] = [@ EXCEPT !.pc = "threw", !.failed = "addAll"]]
  /\ UNCHANGED <<lifeVars, pendingPut, req, log>>

\* ---------------------------------------------------- templateForPartial
\* Mutant: only a newer cached bundle is returned without a refresh.
CachedTemplateUsable_NewerOnly(bundle, partial) ==
  /\ bundle.resourcesVersion # ""
  /\ Has(partial, "builtAt") /\ bundle.builtAt > partial.builtAt

\* Mutant: only a cached bundle of the same version is returned without a
\* refresh.
CachedTemplateUsable_VersionOnly(bundle, partial) ==
  /\ bundle.resourcesVersion # ""
  /\ Has(partial, "resourcesVersion")
  /\ bundle.resourcesVersion = partial.resourcesVersion

\* The cached bundle can be returned without a refresh: its
\* resourcesVersion is non-empty and equals the partial's, or its builtAt is
\* greater than the partial's.
CachedTemplateUsable(bundle, partial) ==
  /\ bundle.resourcesVersion # ""
  /\ \/ Has(partial, "resourcesVersion")
          /\ bundle.resourcesVersion = partial.resourcesVersion
     \/ Has(partial, "builtAt") /\ bundle.builtAt > partial.builtAt

\* const {template} = await updateTemplate(): the template property of the
\* value updateTemplate resolved with.
TemplateProperty(value) ==
  IF value.kind = "object" /\ Has(value.v, "template")
    THEN Str(value.v.template)
    ELSE Undefined

\* if (fallbackTemplate): a non-empty string is truthy.
Truthy(value) == value.kind = "string" /\ value.v # <<>>

\* fallbackTemplate after the cache was read.
FallbackTemplate(cached) ==
  IF cached = Absent THEN Undefined ELSE Str(cached.body.value.template)

\* ------------------------------------------------------ the page route
\* The route handler from `const output = ...` on: the response, or the
\* TypeError of calling replace on a layoutTemplate that is no string.
Synthesize(rec, layoutTemplate) ==
  [rec EXCEPT
     !.pc = "done",
     !.layoutTemplate = layoutTemplate,
     !.result =
        IF layoutTemplate.kind = "string"
          THEN [kind |-> "html", status |-> rec.response.status,
                contentType |-> "text/html",
                body |-> Hydrate(layoutTemplate.v, rec.partial)]
          ELSE [kind |-> "error", error |-> "TypeError"]]

\* The route handler once `response` is set: the ok check, response.json()
\* and the call of templateForPartial, which issues caches.match.
AfterResponse(rec, response) ==
  IF ~Ok(response.status)
    THEN [rec EXCEPT !.pc = "done", !.response = response,
                     !.result = [kind |-> "error", error |-> "unhandled status"]]
  ELSE IF response.body = Malformed
    THEN [rec EXCEPT !.pc = "done", !.response = response,
                     !.result = [kind |-> "error", error |-> "SyntaxError"]]
  ELSE [rec EXCEPT !.pc = "template", !.response = response,
                   !.partial = response.body.value]

CallsAfterResponse(response) ==
  IF Ok(response.status) /\ response.body # Malformed
    THEN <<"caches.match:template">>
    ELSE <<>>

\* A page request arrives.  A pathname with neither a trailing slash nor
\* ".html" is redirected; otherwise partialStrategy.handle is issued.
ReqStart(r, pathname, search) ==
  /\ req[r].pc = "idle"
  /\ IF NeedsRedirect(pathname)
       THEN /\ req' = [req EXCEPT ![r] =
                  [IdleReq EXCEPT
                     !.pc = "done", !.pathname = pathname, !.search = search,
                     !.result = [kind |-> "redirect", status |-> RedirectStatus,
                                 location |-> RedirectTarget(pathname, search)]]]
            /\ log' = [log EXCEPT ![r] = <<>>]
       ELSE /\ req' = [req EXCEPT ![r] =
                  [IdleReq EXCEPT
                     !.pc = "strategy", !.pathname = pathname, !.search = search,
                     !.partialPath = PartialPath(pathname)]]
            /\ log' = [log EXCEPT ![r] = <<"partialStrategy.handle">>]
  /\ UNCHANGED <<lifeVars, coreCache, pendingPut, ut>>

\* partialStrategy.handle settles.  A throw is caught and
\* offlinePartialResponse is called, which issues caches.match.
ReqStrategyDone(r, outcome) ==
  /\ req[r].pc = "strategy"
  /\ IF outcome = Throw
       THEN /\ req' = [req EXCEPT ![r] =
                         [@ EXCEPT !.pc = "offline", !.strategyThrew = TRUE]]
            /\ log' = Append1(r, <<"caches.match:offline">>)
       ELSE /\ req' = [req EXCEPT ![r] = AfterResponse(@, outcome)]
            /\ log' = Append1(r, CallsAfterResponse(outcome))
  /\ UNCHANGED <<lifeVars, coreCache, pendingPut, ut>>

\* caches.match('/offline/index.json') settles.
ReqOfflineDone(r) ==
  /\ req[r].pc = "offline"
  /\ LET response == OfflinePartialResponse(coreCache) IN
       /\ req' = [req EXCEPT ![r] = AfterResponse(@, response)]
       /\ log' = Append1(r, CallsAfterResponse(response))
  /\ UNCHANGED <<lifeVars, coreCache, pendingPut, ut>>

\* caches.match(templateUrl) of templateForPartial settles.  The cached
\* template is returned, or updateTemplate is called.
ReqTemplateMatched(r) ==
  /\ req[r].pc = "template"
  /\ LET cached == coreCache[templateUrl] IN
       IF cached # Absent /\ CachedTemplateUsable(cached.body.value, req[r].partial)
         THEN /\ req' = [req EXCEPT ![r] =
                    Synthesize([@ EXCEPT !.cached = cached],
                               Str(cached.body.value.template))]
              /\ UNCHANGED <<ut, log>>
         ELSE /\ req' = [req EXCEPT ![r] = [@ EXCEPT !.pc = "update", !.cached = cached]]
              /\ CallUpdateTemplate(r)
              /\ log' = Append1(r, <<"fetch:template">>)
  /\ UNCHANGED <<lifeVars, coreCache, pendingPut>>

\* Mutant: a failed refresh is always rethrown.
TemplateAfterUpdate_Rethrow(u, cached) ==
  IF u.pc = "returned"
    THEN TemplateProperty(UpdateTemplateResult(u.raw))
    ELSE Throw

\* What templateForPartial settles with once updateTemplate has: the
\* destructured template, the fallback template, or the error rethrown.
TemplateAfterUpdate(u, cached) ==
  IF u.pc = "returned"
    THEN TemplateProperty(UpdateTemplateResult(u.raw))
  ELSE IF Truthy(FallbackTemplate(cached))
    THEN FallbackTemplate(cached)
  ELSE Throw

\* updateTemplate has settled; templateForPartial and the handler go on.
ReqAfterUpdate(r) ==
  /\ req[r].pc = "update"
  /\ ut[r].pc \in {"returned", "threw"}
  /\ LET t == TemplateAfterUpdate(ut[r], req[r].cached) IN
       req' = [req EXCEPT ![r] =
                 IF t = Throw
                   THEN [@ EXCEPT !.pc = "done",
                                  !.result = [kind |-> "error", error |-> ut[r].failed]]
                   ELSE Synthesize(@, t)]
  /\ UNCHANGED <<lifeVars, coreCache, pendingPut, ut, log>>

\* ------------------------------------- strategy routes and the catch handler
\* A request of a font, partial or image route arrives: the route's
\* strategy is asked to handle it.
RouteStart(r, url) ==
  /\ req[r].pc = "idle"
  /\ RouteOf(url) \notin {"page", "none"}
  /\ req' = [req EXCEPT ![r] =
               [IdleReq EXCEPT !.pc = "route", !.origin = url.origin,
                               !.pathname = url.pathname]]
  /\ log' = [log EXCEPT ![r] = <<RouteOf(url)>>]
  /\ UNCHANGED <<lifeVars, coreCache, pendingPut, ut>>

\* The strategy of the route settles: with a response, or with an error.
RouteStrategyDone(r, outcome) ==
  /\ req[r].pc = "route"
  /\ req' = [req EXCEPT ![r] =
               [@ EXCEPT !.pc = "done",
                         !.result = IF outcome = Throw
                                      THEN [kind |-> "error", error |-> "strategy"]
                                      ELSE outcome]]
  /\ UNCHANGED <<lifeVars, coreCache, pendingPut, ut, log>>

\* Mutant: every URL that is not partial-shaped is fetched from the network.
CatchDecision_FetchRest(url) ==
  IF PartialMatch(url) THEN "offline" ELSE "fetch"

\* The branch the catch handler takes for a URL.
CatchDecision(url) ==
  IF PartialMatch(url) THEN "offline"
  ELSE IF NormalMatch(url) THEN "fetch"
  ELSE "none"

\* What fetch(request) of the catch handler can settle with.
NetworkOutcomes ==
  {Throw, NewResponse(Malformed),
   [kind |-> "response", status |-> 404, body |-> Json(NotFoundPartial)]}

\* The handler of a matched route has raised an error: the router calls
\* the catch handler with the URL and the request.
CatchHandler(r) ==
  /\ req[r].pc = "done"
  /\ req[r].result.kind = "error"
  /\ req[r].caught.pc = "idle"
  /\ LET decision == CatchDecision([origin |-> req[r].origin,
                                    pathname |-> req[r].pathname])
     IN req' = [req EXCEPT ![r].caught =
                  CASE decision = "offline" ->
                         [pc |-> "offline", calls |-> <<"caches.match:offline">>,
                          result |-> NoResult]
                    [] decision = "fetch" ->
                         [pc |-> "fetch", calls |-> <<"fetch:request">>,
                          result |-> NoResult]
                    [] OTHER ->
                         [pc |-> "done", calls |-> <<>>, result |-> Undefined]]
  /\ UNCHANGED <<lifeVars, coreCache, pendingPut, ut, log>>

\* offlinePartialResponse() of the catch handler settles.
CatchOfflineDone(r) ==
  /\ req[r].caught.pc = "offline"
  /\ req' = [req EXCEPT ![r].caught =
               [@ EXCEPT !.pc = "done", !.result = OfflinePartialResponse(coreCache)]]
  /\ UNCHANGED <<lifeVars, coreCache, pendingPut, ut, log>>

\* fetch(request) of the catch handler settles.
CatchFetchDone(r, outcome) ==
  /\ req[r].caught.pc = "fetch"
  /\ req' = [req EXCEPT ![r].caught =
               [@ EXCEPT !.pc = "done",
                         !.result = IF outcome = Throw
                                      THEN [kind |-> "error", error |-> "fetch"]
                                      ELSE outcome]]
  /\ UNCHANGED <<lifeVars, coreCache, pendingPut, ut, log>>

\* ------------------------------------------------------------- lifecycle
\* The 'install' event: the flag is set when a worker is already active,
\* and the handler calls updateTemplate.
InstallEvent ==
  /\ sw = "parsed"
  /\ sw' = "installing"
  /\ replacingPreviousServiceWorker' = (regActive \/ replacingPreviousServiceWorker)
  /\ CallUpdateTemplate("install")
  /\ log' = Append1("install", <<"fetch:template">>)
  /\ UNCHANGED <<idbArch, regActive, runtimeCache, clients, act, previousArchitecture, del, coreCache,
                 pendingPut, req>>

\* Mutant: skipWaiting is called however updateTemplate settled.
InstallAfterUpdate_AlwaysSkips ==
  /\ sw = "installing"
  /\ ut["install"].pc \in {"returned", "threw"}
  /\ sw' = "skipWaiting"
  /\ log' = Append1("install", <<"skipWaiting">>)
  /\ UNCHANGED <<idbArch, regActive, replacingPreviousServiceWorker, runtimeCache,
                 clients, act, previousArchitecture, del, coreCache, pendingPut, req, ut>>

\* updateTemplate has settled in the install handler: skipWaiting is called,
\* or the promise given to waitUntil rejects and the worker is discarded.
InstallAfterUpdate ==
  /\ sw = "installing"
  /\ ut["install"].pc \in {"returned", "threw"}
  /\ IF ut["install"].pc = "returned"
       THEN /\ sw' = "skipWaiting"
            /\ log' = Append1("install", <<"skipWaiting">>)
       ELSE /\ sw' = "redundant"
            /\ UNCHANGED log
  /\ UNCHANGED <<idbArch, regActive, replacingPreviousServiceWorker, runtimeCache,
                 clients, act, previousArchitecture, del, coreCache, pendingPut, req, ut>>

\* Mutant: the install handler stores the architecture once it is done.
InstallDone_StoresArchitecture ==
  /\ sw = "skipWaiting"
  /\ sw' = "installed"
  /\ idbArch' = serviceWorkerArchitecture
  /\ UNCHANGED <<regActive, replacingPreviousServiceWorker, runtimeCache,
                 clients, act, previousArchitecture, del, coreCache, pendingPut, req, ut, log>>

\* self.skipWaiting() settles: the install handler is done.
InstallDone ==
  /\ sw = "skipWaiting"
  /\ sw' = "installed"
  /\ UNCHANGED <<idbArch, regActive, replacingPreviousServiceWorker, runtimeCache,
                 clients, act, previousArchitecture, del, coreCache, pendingPut, req, ut, log>>

\* The browser stops the idle worker between install and activate and
\* starts it again: the script's globals are initialised anew.
WorkerRestart ==
  /\ sw = "installed"
  /\ replacingPreviousServiceWorker
  /\ replacingPreviousServiceWorker' = FALSE
  /\ UNCHANGED <<idbArch, regActive, runtimeCache, clients, sw, act,
                 previousArchitecture, del, coreCache, pendingPut, req, ut, log>>

\* The 'activate' event: the first listener issues caches.delete of the
\* runtime cache, the second issues idb.get of the architecture.
ActivateEvent ==
  /\ sw = "installed"
  /\ sw' = "activating"
  /\ del' = "deleting"
  /\ act' = "get"
  /\ log' = Append1("activate", <<"caches.delete", "idb.get">>)
  /\ UNCHANGED <<idbArch, regActive, replacingPreviousServiceWorker, runtimeCache,
                 clients, previousArchitecture, coreCache, pendingPut, req, ut>>

\* caches.delete(cacheNames.runtime) settles.
RuntimeCacheDeleted ==
  /\ del = "deleting"
  /\ del' = "done"
  /\ runtimeCache' = FALSE
  /\ UNCHANGED <<idbArch, regActive, replacingPreviousServiceWorker, clients, sw,
                 act, previousArchitecture, coreCache, pendingPut, req, ut, log>>

\* Mutant: the architecture always counts as unchanged.
SameArchitecture_Always(previous) == TRUE

\* Mutant: the architecture never counts as unchanged.
SameArchitecture_Never(previous) == FALSE

\* previousArchitecture === serviceWorkerArchitecture
SameArchitecture(previous) == previous = serviceWorkerArchitecture

\* idb.get settles.  With the architecture unchanged the listener returns;
\* otherwise idb.set of the running architecture is issued.
ActivateGot ==
  /\ act = "get"
  /\ previousArchitecture' = idbArch
  /\ IF SameArchitecture(idbArch)
       THEN /\ act' = "done"
            /\ UNCHANGED log
       ELSE /\ act' = "set"
            /\ log' = Append1("activate", <<"idb.set">>)
  /\ UNCHANGED <<idbArch, regActive, replacingPreviousServiceWorker, runtimeCache,
                 clients, sw, del, coreCache, pendingPut, req, ut>>

\* idb.set settles, the architecture is stored; clients.claim is issued.
ActivateStored ==
  /\ act = "set"
  /\ idbArch' = serviceWorkerArchitecture
  /\ act' = "claim"
  /\ log' = Append1("activate", <<"idb.set:done", "clients.claim">>)
  /\ UNCHANGED <<regActive, replacingPreviousServiceWorker, runtimeCache, clients,
                 sw, previousArchitecture, del, coreCache, pendingPut, req, ut>>

\* Mutant: the window clients are reloaded on a fresh install too.
ShouldReload_Always(replacing) == TRUE

\* if (replacingPreviousServiceWorker)
ShouldReload(replacing) == replacing

\* clients.claim settles: every client in scope is controlled by this
\* worker.  When a previous worker is replaced, clients.matchAll is issued.
ActivateClaimed ==
  /\ act = "claim"
  /\ clients' = [c \in ClientIds |-> [clients[c] EXCEPT !.controller = "this"]]
  /\ IF ShouldReload(replacingPreviousServiceWorker)
       THEN /\ act' = "matchAll"
            /\ log' = Append1("activate", <<"clients.claim:done", "clients.matchAll">>)
       ELSE /\ act' = "done"
            /\ log' = Append1("activate", <<"clients.claim:done">>)
  /\ UNCHANGED <<idbArch, regActive, replacingPreviousServiceWorker, runtimeCache,
                 sw, previousArchitecture, del, coreCache, pendingPut, req, ut>>

\* clients.matchAll({includeUncontrolled: true, type: 'window'})
WindowClients(cs) == {c \in ClientIds : cs[c].type = "window"}

\* clients.matchAll settles: every window client is navigated to its url.
ActivateMatched ==
  /\ act = "matchAll"
  /\ clients' = [c \in ClientIds |->
                   IF c \in WindowClients(clients)
                     THEN [clients[c] EXCEPT !.navigatedTo = Str(clients[c].url)]
                     ELSE clients[c]]
  /\ act' = "done"
  /\ log' = Append1("activate", <<"client.navigate">>)
  /\ UNCHANGED <<idbArch, regActive, replacingPreviousServiceWorker, runtimeCache,
                 sw, previousArchitecture, del, coreCache, pendingPut, req, ut>>

\* -------------------------------------------------------- specifications
UpdateStepsOf(t, fetched) ==
  \/ \E outcome \in fetched : UTFetchDone(t, outcome)
  \/ UTJsonDone(t)
  \/ UTOpened(t)
  \/ \E ok \in BOOLEAN, offline \in OfflinePartials : UTAddAllDone(t, ok, offline)
  \/ CachePutDone(t)

UpdateSteps(t) == UpdateStepsOf(t, TemplateFetchOutcomes)

HandlerSteps(r, paths, searches, outcomes) ==
  \/ \E pathname \in paths, search \in searches : ReqStart(r, pathname, search)
  \/ \E outcome \in outcomes : ReqStrategyDone(r, outcome)
  \/ ReqOfflineDone(r)
  \/ ReqTemplateMatched(r)
  \/ ReqAfterUpdate(r)

RequestStepsOf(r, paths, outcomes) ==
  HandlerSteps(r, paths, Searches, outcomes) \/ UpdateSteps(r)

RequestSteps(r, paths) == RequestStepsOf(r, paths, StrategyOutcomes)

InstallSteps ==
  \/ InstallEvent
  \/ InstallAfterUpdate
  \/ InstallDone

LifecycleSteps ==
  \/ InstallSteps
  \/ WorkerRestart
  \/ ActivateEvent
  \/ RuntimeCacheDeleted
  \/ ActivateGot
  \/ ActivateStored
  \/ ActivateClaimed
  \/ ActivateMatched
  \/ UpdateSteps("install")

ActivateSteps ==
  \/ WorkerRestart
  \/ ActivateEvent
  \/ RuntimeCacheDeleted
  \/ ActivateGot
  \/ ActivateStored
  \/ ActivateClaimed
  \/ ActivateMatched

\* The worker's lifecycle: install, activate and the template warm-up.
NextLife == LifecycleSteps
SpecLife == Init /\ [][NextLife]_vars

\* A page request against every state of the core cache; the lifecycle does
\* not run.
InitPage ==
  /\ Init
  /\ idbArch = "none"
  /\ regActive = FALSE
  /\ runtimeCache = FALSE
NextPage == RequestSteps("r1", FewPaths)
SpecPage == InitPage /\ [][NextPage]_vars

\* A page request for every pathname, starting from an empty core cache.
InitRoute ==
  /\ InitPage
  /\ coreCache = [u \in CacheUrls |-> Absent]
NextRoute == RequestSteps("r1", PagePaths)
SpecRoute == InitRoute /\ [][NextRoute]_vars

\* Every route and the catch handler: a request of any route whose handler
\* can raise an error.
CatchOutcomes ==
  {Throw, NewResponse(Malformed),
   [kind |-> "response", status |-> 404, body |-> Json(NotFoundPartial)],
   NewResponse(Json(WithBuild([raw |-> <<"<p>hi</p>">>, title |-> <<"Hi">>], "r1", 1)))}
CatchSteps(r) ==
  \/ \E url \in StrategyUrls : RouteStart(r, url)
  \/ \E outcome \in {Throw, NewResponse(Malformed)} : RouteStrategyDone(r, outcome)
  \/ CatchHandler(r)
  \/ CatchOfflineDone(r)
  \/ \E outcome \in NetworkOutcomes : CatchFetchDone(r, outcome)
NextCatch == RequestStepsOf("r1", PagePaths, CatchOutcomes) \/ CatchSteps("r1")
SpecCatch == InitPage /\ [][NextCatch]_vars

\* Hydration as a function of the partial: one page request whose partial
\* has any of the title, rss and raw strings of HydrateContents.
NextHydrate == RequestStepsOf("r1", {<<"/">>}, HydrateOutcomes)
SpecHydrate == InitPage /\ [][NextHydrate]_vars

\* The worker as a whole: a worker installing into an empty core cache
\* and activating while it serves a page request, the warm-up and the
\* request's refresh fetching either of two bundles.
RefreshBundles ==
  {b \in Bundles : <<b.resourcesVersion, b.builtAt>> \in {<<"r1", 1>>, <<"r2", 2>>}}
RefreshFetchOutcomes ==
  {Throw, NewResponse(Malformed)} \cup {NewResponse(Json(b)) : b \in RefreshBundles}
RefreshOutcomes ==
  {Throw, NewResponse(Json(WithBuild([raw |-> <<"<p>hi</p>">>, title |-> <<"Hi">>], "r2", 2)))}
RefreshSteps(r) ==
  \/ HandlerSteps(r, {<<"/">>}, {<<>>}, RefreshOutcomes)
  \/ UpdateStepsOf(r, RefreshFetchOutcomes)
InitFirstInstall ==
  /\ Init
  /\ runtimeCache = TRUE
  /\ coreCache = [u \in CacheUrls |-> Absent]
Next ==
  \/ InstallSteps
  \/ ActivateSteps
  \/ UpdateStepsOf("install", RefreshFetchOutcomes)
  \/ RefreshSteps("r1")
Spec == InitFirstInstall /\ [][Next]_vars

\* Concurrent refreshes: the install warm-up and two page requests, each
\* calling updateTemplate against the same, initially empty, core cache.
InitRefresh ==
  /\ InitFirstInstall
  /\ idbArch = "none"
  /\ regActive = FALSE
NextRefresh ==
  \/ InstallSteps
  \/ UpdateStepsOf("install", RefreshFetchOutcomes)
  \/ \E r \in ReqIds : RefreshSteps(r)
SpecRefresh == InitRefresh /\ [][NextRefresh]_vars

\* ----------------------------------------------------------------- claims
Calls(t) == {log[t][i] : i \in DOMAIN log[t]}
IsOkStatus(status) == status \in 200..299

\* C1: a page request whose pathname ends in neither "/" nor ".html" is
\* answered with a 301 redirect to pathname + "/" + the query string, and
\* the handler has then called nothing: not the partial strategy, not the
\* cache, not the template endpoint.
C1_RedirectWithoutFetch ==
  \A r \in ReqIds :
    LET q == req[r] IN
    (q.pc # "idle" /\ q.pathname[Len(q.pathname)] # "/"
       /\ ~EndsWith(q.pathname, DotHtml))
    => /\ q.pc = "done"
       /\ q.result = [kind |-> "redirect", status |-> 301,
                      location |-> q.pathname \o <<"/">> \o q.search]
       /\ log[r] = <<>>
       /\ ut[r].pc = "idle"
       /\ pendingPut[r] = Absent
       /\ q.response = Absent

C1_Witness ==
  \E r \in ReqIds :
    /\ req[r].result.kind = "redirect"
    /\ req[r].search # <<>>
    /\ Len(req[r].pathname) > 1

\* C2: when partialStrategy.handle throws, the handler goes on to call
\* offlinePartialResponse instead of failing; the response it then holds is
\* the cached /offline/index.json, or the in-memory substitute when none is
\* cached; and a response the handler returns is the hydration of that
\* offline partial, with status 200.
C2_State ==
  \A r \in ReqIds :
    LET q == req[r] IN
    q.strategyThrew =>
      /\ Len(log[r]) >= 2
      /\ log[r][2] = "caches.match:offline"
      /\ q.pc # "offline" =>
           /\ q.response.status = 200
           /\ q.partial = q.response.body.value
           /\ q.partial = DevOfflinePartial \/ q.partial \in OfflinePartials
      /\ (q.pc = "done" /\ q.result.kind = "html") =>
           /\ q.result.status = 200
           /\ q.result.body = Hydrate(q.layoutTemplate.v, q.response.body.value)
      /\ (q.pc = "done" /\ q.result.kind = "error") =>
           q.result.error \in {"fetch", "json", "addAll", "TypeError"}

C2_Step ==
  \A r \in ReqIds :
    (req[r].pc = "offline" /\ req'[r].pc # "offline") =>
      req'[r].response =
        IF coreCache[offlineUrl] = Absent
          THEN [kind |-> "response", status |-> 200,
                body |-> Json([offline |-> TRUE, raw |-> <<"<h1>Dev offline</h1>">>,
                               title |-> <<>>])]
          ELSE coreCache[offlineUrl]

\* C2: in every state the handler of a request whose partial strategy threw
\* holds the offline partial (C2_State), and the step that reads it takes the
\* cached /offline/index.json or, with none cached, the substitute (C2_Step).
C2_OfflineSubstituted == [](C2_State) /\ [][C2_Step]_vars

C2_Witness ==
  \E r \in ReqIds :
    /\ req[r].strategyThrew
    /\ req[r].result.kind = "html"
    /\ req[r].partial \in OfflinePartials

\* C3: when the partial response (of the strategy or the offline
\* substitute) has a non-ok status, the handler ends with an error, returns
\* no synthesized response, and neither resolves nor refreshes the template.
C3_NonOkRaises ==
  \A r \in ReqIds :
    LET q == req[r] IN
    (q.response # Absent /\ ~IsOkStatus(q.response.status))
    => /\ q.pc = "done"
       /\ q.result = [kind |-> "error", error |-> "unhandled status"]
       /\ Calls(r) \cap {"caches.match:template", "fetch:template", "cache.put",
                         "cache.addAll"} = {}
       /\ ut[r].pc = "idle"
       /\ q.layoutTemplate = Absent

C3_Witness ==
  \E r \in ReqIds :
    /\ req[r].response # Absent
    /\ req[r].response.status = 404
    /\ req[r].pc = "done"

\* The bundle templateForPartial read from the core cache, when the read
\* has happened and found one.
CachedBundle(q) == q.cached.body.value
VersionsMatch(q) ==
  /\ Has(q.partial, "resourcesVersion")
  /\ CachedBundle(q).resourcesVersion = q.partial.resourcesVersion
CachedIsNewer(q) ==
  /\ Has(q.partial, "builtAt")
  /\ CachedBundle(q).builtAt > q.partial.builtAt
\* The request went through templateForPartial without a refresh and without
\* a write to the core cache.
NoRefresh(r) ==
  /\ ut[r].pc = "idle"
  /\ pendingPut[r] = Absent
  /\ Calls(r) \cap {"fetch:template", "cache.put", "cache.addAll"} = {}

\* C4: when the cached template cannot be used as it is (nothing cached, an
\* empty cached resourcesVersion, or different versions with a cached
\* builtAt that is not newer) and the refresh succeeds, templateForPartial
\* gives the hydration step the template string of the bundle just fetched.
C4_RefreshReturnsFetchedTemplate ==
  \A r \in ReqIds :
    LET q == req[r] IN
    (/\ q.pc = "done"
     /\ ut[r].pc = "returned"
     /\ \/ q.cached = Absent
        \/ CachedBundle(q).resourcesVersion = ""
        \/ ~VersionsMatch(q) /\ ~CachedIsNewer(q))
    => q.layoutTemplate = Str(ut[r].raw.template)

\* C5: a cached bundle with a non-empty resourcesVersion equal to the
\* partial's is returned unchanged, with no fetch of the template endpoint
\* and no write to the core cache, whatever the two builtAt are.
C5_SameVersionNoRefresh ==
  \A r \in ReqIds :
    LET q == req[r] IN
    (/\ q.cached # Absent
     /\ CachedBundle(q).resourcesVersion # ""
     /\ VersionsMatch(q))
    => /\ q.pc = "done"
       /\ q.layoutTemplate = Str(CachedBundle(q).template)
       /\ NoRefresh(r)

C5_Witness ==
  \E r \in ReqIds :
    LET q == req[r] IN
    /\ q.cached # Absent
    /\ CachedBundle(q).resourcesVersion # ""
    /\ VersionsMatch(q)
    /\ Has(q.partial, "builtAt")
    /\ CachedBundle(q).builtAt < q.partial.builtAt
    /\ q.result.kind = "html"

\* C6: a cached bundle with a non-empty resourcesVersion and a builtAt
\* greater than the partial's is returned with no refresh, also when the two
\* resourcesVersion differ.
C6_NewerCachedNoRefresh ==
  \A r \in ReqIds :
    LET q == req[r] IN
    (/\ q.cached # Absent
     /\ CachedBundle(q).resourcesVersion # ""
     /\ CachedIsNewer(q))
    => /\ q.pc = "done"
       /\ q.layoutTemplate = Str(CachedBundle(q).template)
       /\ NoRefresh(r)

C6_Witness ==
  \E r \in ReqIds :
    LET q == req[r] IN
    /\ q.cached # Absent
    /\ CachedBundle(q).resourcesVersion # ""
    /\ CachedIsNewer(q)
    /\ Has(q.partial, "resourcesVersion")
    /\ ~VersionsMatch(q)
    /\ q.result.kind = "html"

\* C7: when the refresh fails (the fetch throws, the body is not JSON, or
\* precaching the manifest rejects), templateForPartial returns the template
\* it read from the cache whenever there was one, and the failure reaches
\* the caller only when nothing was cached.
C7_RefreshFailureFallsBack ==
  \A r \in ReqIds :
    LET q == req[r] IN
    (q.pc = "done" /\ ut[r].pc = "threw")
    => IF q.cached # Absent
         THEN /\ q.layoutTemplate = Str(CachedBundle(q).template)
              /\ q.result.kind = "html"
         ELSE /\ q.result = [kind |-> "error", error |-> ut[r].failed]
              /\ q.layoutTemplate = Absent

C7_Witness ==
  \E r \in ReqIds :
    /\ req[r].pc = "done"
    /\ ut[r].pc = "threw"
    /\ ut[r].failed = "addAll"
    /\ req[r].cached # Absent
    /\ req[r].result.kind = "html"

\* Position of the first occurrence of a call in the activate listeners'
\* log, 0 when it was not made.
ActivateCall(c) == IndexOf(log["activate"], c)
Navigated == {c \in ClientIds : clients[c].navigatedTo # Absent}
ArchitectureRead == previousArchitecture # "unread"

\* C8: on activation with a stored architecture that is absent or differs
\* from the running one, the listener stores the running architecture and
\* then claims the clients: clients.claim is called only after idb.set has
\* settled and the store holds the running architecture, and a listener that
\* has finished has done both.
C8_StoreThenClaim ==
  /\ ActivateCall("clients.claim") # 0 =>
       /\ ActivateCall("idb.set:done") # 0
       /\ ActivateCall("idb.set:done") < ActivateCall("clients.claim")
       /\ idbArch = "v3"
  /\ (ArchitectureRead /\ previousArchitecture # "v3" /\ act = "done") =>
       /\ idbArch = "v3"
       /\ ActivateCall("clients.claim:done") # 0
       /\ \A c \in ClientIds : clients[c].controller = "this"

C8_Witness ==
  /\ previousArchitecture = "none"
  /\ act = "done"
  /\ ActivateCall("clients.claim:done") # 0

\* C9: on activation with a stored architecture equal to the running one,
\* the listener calls neither clients.claim nor navigate, no client changes,
\* and the revision store keeps its value.
C9_SameArchitectureDoesNothing ==
  (ArchitectureRead /\ previousArchitecture = "v3") =>
    /\ act = "done"
    /\ idbArch = previousArchitecture
    /\ clients = InitClients(regActive)
    /\ ActivateCall("idb.set") = 0
    /\ ActivateCall("clients.claim") = 0
    /\ ActivateCall("clients.matchAll") = 0
    /\ ActivateCall("client.navigate") = 0

C9_Witness ==
  /\ previousArchitecture = "v3"
  /\ act = "done"
  /\ regActive

\* C10: a client is navigated during activation only if it is a window, the
\* stored architecture differed from the running one, and a worker was
\* active when this worker instance handled its install event; after a fresh
\* install no client is navigated.
C10_ReloadOnlyWhenReplacing ==
  /\ \A c \in Navigated :
       /\ clients[c].type = "window"
       /\ clients[c].navigatedTo = Str(clients[c].url)
       /\ ArchitectureRead /\ previousArchitecture # "v3"
       /\ regActive
       /\ replacingPreviousServiceWorker
  /\ ~regActive => Navigated = {} /\ ActivateCall("clients.matchAll") = 0

C10_Witness ==
  /\ Navigated # {}
  /\ \E c \in Navigated : clients[c].controller = "this"

\* C11: for a page request that is not redirected, the partial asked of the
\* partial strategy is pathname + "index.json" when the pathname ends in
\* "/", and the pathname with its trailing ".html" replaced by ".json" when
\* it ends in ".html".
C11_PartialPath ==
  \A r \in ReqIds :
    LET q == req[r]
        n == Len(q.pathname)
    IN
    (q.pc # "idle" /\ q.result.kind # "redirect")
    => /\ log[r][1] = "partialStrategy.handle"
       /\ q.pathname[n] = "/" =>
            q.partialPath = q.pathname \o <<"i", "n", "d", "e", "x", ".", "j", "s", "o", "n">>
       /\ (n >= 5 /\ SubSeq(q.pathname, n - 4, n) = <<".", "h", "t", "m", "l">>) =>
            q.partialPath = SubSeq(q.pathname, 1, n - 5) \o <<".", "j", "s", "o", "n">>
       /\ q.pathname[n] = "/" \/ (n >= 5 /\ SubSeq(q.pathname, n - 4, n) = DotHtml)

C11_Witness ==
  \E r \in ReqIds :
    /\ req[r].pc = "strategy"
    /\ Len(req[r].pathname) > 1
    /\ req[r].pathname[Len(req[r].pathname)] = "/"

\* C12: when the template holds each marker once and the handler returns a
\* synthesized response, the body is the template with the head marker
\* replaced by the head string and the body marker by partial.raw, each
\* once, and no marker literal is left in the body.
C12_MarkersSubstitutedOnce ==
  \A r \in ReqIds :
    LET q == req[r] IN
    (q.pc = "done" /\ q.result.kind = "html") =>
      LET t == q.layoutTemplate.v
          i == IndexOf(t, headMarker)
          j == IndexOf(t, contentMarker)
      IN
      (/\ i > 0 /\ j > i
       /\ IndexFrom(t, headMarker, i + 1) = 0
       /\ IndexFrom(t, contentMarker, j + 1) = 0)
      => /\ q.result.body =
              SubSeq(t, 1, i - 1) \o HeadString(q.partial) \o SubSeq(t, i + 1, j - 1)
                \o q.partial.raw \o SubSeq(t, j + 1, Len(t))
         /\ IndexOf(q.result.body, headMarker) = 0
         /\ IndexOf(q.result.body, contentMarker) = 0

\* The title attribute of the feed link in a synthesized body.
FeedTitleOf(body) ==
  LET i == IndexOf(body, " data-title=")
      j == IndexFrom(body, "/>", i + 1)
  IN SubSeq(body, i + 1, j - 1)

\* C13: in a synthesized response the feed link's title is "web.dev feed"
\* when partial.rss is omitted, and "<partial.title> on web.dev" when
\* partial.rss is present and is not "/feed.xml".
C13_FeedTitle ==
  \A r \in ReqIds :
    LET q == req[r] IN
    (q.pc = "done" /\ q.result.kind = "html") =>
      /\ ~Has(q.partial, "rss") => FeedTitleOf(q.result.body) = <<"web.dev feed">>
      /\ (Has(q.partial, "rss") /\ q.partial.rss # <<"/feed.xml">>) =>
           FeedTitleOf(q.result.body) = FieldText(q.partial, "title") \o <<" on web.dev">>

\* The URL of a request.
UrlOf(q) == [origin |-> q.origin, pathname |-> q.pathname]

C16_ArchitectureWrittenOnActivate ==
  [][/\ idbArch' # idbArch =>
          /\ sw = "activating"
          /\ act = "set" /\ act' = "claim"
          /\ log["activate"][Len(log["activate"])] = "idb.set"
          /\ idbArch' = serviceWorkerArchitecture
          /\ req' = req /\ ut' = ut /\ sw' = sw
     /\ sw \in {"parsed", "installing", "skipWaiting", "installed", "redundant"} =>
          idbArch' = idbArch]_vars

C16_Witness ==
  /\ idbArch = serviceWorkerArchitecture
  /\ previousArchitecture = "v2"
  /\ req["r1"].pc = "done"
  /\ "skipWaiting" \in Calls("install")

\* C17: from the install event on, updateTemplate has been called by the
\* install handler (its first call is the fetch of the template endpoint);
\* skipWaiting has been called only if that updateTemplate resolved; and
\* when it rejected, at the fetch, the parse or the precache, skipWaiting is
\* not called and the handler's next step is the rejection of the promise
\* given to waitUntil, which discards the worker.
C17_State ==
  /\ sw # "parsed" =>
       /\ ut["install"].pc # "idle"
       /\ log["install"] # <<>> /\ log["install"][1] = "fetch:template"
  /\ "skipWaiting" \in Calls("install") => ut["install"].pc = "returned"
  /\ sw \in {"skipWaiting", "installed", "activating"} =>
       "skipWaiting" \in Calls("install")
  /\ ut["install"].pc = "threw" =>
       /\ ut["install"].failed \in {"fetch", "json", "addAll"}
       /\ "skipWaiting" \notin Calls("install")
       /\ sw \in {"installing", "redundant"}
  /\ sw = "redundant" => ut["install"].pc = "threw"

C17_Step ==
  /\ (sw = "installing" /\ sw' # sw) =>
       IF ut["install"].pc = "returned"
         THEN sw' = "skipWaiting" /\ log'["install"] = log["install"] \o <<"skipWaiting">>
         ELSE ut["install"].pc = "threw" /\ sw' = "redundant" /\ log' = log
  /\ sw = "redundant" => sw' = "redundant" /\ log'["install"] = log["install"]

C17_SkipWaitingAfterRefresh == [](C17_State) /\ [][C17_Step]_vars

C17_Witness ==
  /\ sw = "redundant"
  /\ ut["install"].failed = "addAll"
  /\ regActive

\* C18: once two concurrent refreshes (the install warm-up and a request's,
\* or those of two requests) have both completed, the template entry of the
\* core cache is the manifest-stripped bundle fetched by one of the two; it
\* is not absent and not anything else.
C18_LastWriterWins ==
  \A t1, t2 \in UpdateTasks :
    (/\ t1 # t2
     /\ ut[t1].pc = "returned" /\ ut[t2].pc = "returned"
     /\ \A t \in UpdateTasks \ {t1, t2} : ut[t].pc = "idle")
    => /\ coreCache[templateUrl] # Absent
       /\ coreCache[templateUrl] \in {StoredBundle(ut[t1].raw), StoredBundle(ut[t2].raw)}

\* C19: when a worker that replaces a previously active worker has run its
\* activate handler and the stored architecture differed from its own, then
\* clients.claim has settled and after it every window client, controlled
\* or not, has been navigated to its own url.
C19_ReplacedClientsReloaded ==
  (/\ regActive
   /\ previousArchitecture \notin {"unread", serviceWorkerArchitecture}
   /\ act = "done")
  => /\ "clients.claim:done" \in Calls("activate")
     /\ \A c \in ClientIds :
          clients[c].type = "window" => clients[c].navigatedTo = Str(clients[c].url)

\* C20: updateTemplate issues cache.put of the bundle it parsed right before
\* cache.addAll of the manifest.  When the precache then fails, the refresh
\* rejects with that failure and the write is left alone: it is still in
\* flight or the template entry is the new bundle, and when it lands the
\* template entry becomes the new bundle.
C20_State ==
  \A t \in UpdateTasks :
    ut[t].failed = "addAll" =>
      /\ ut[t].pc = "threw"
      /\ ut[t].raw # Absent
      /\ \E i \in 1..(Len(log[t]) - 1) :
           log[t][i] = "cache.put" /\ log[t][i + 1] = "cache.addAll"
      /\ \/ pendingPut[t] = StoredBundle(ut[t].raw)
         \/ coreCache[templateUrl] = StoredBundle(ut[t].raw)

C20_Step ==
  \A t \in UpdateTasks :
    /\ (ut[t].pc = "addAll" /\ ut'[t].pc = "threw") =>
         pendingPut' = pendingPut /\ coreCache' = coreCache
    /\ (ut[t].failed = "addAll" /\ pendingPut[t] # Absent /\ pendingPut'[t] = Absent) =>
         coreCache'[templateUrl] = StoredBundle(ut[t].raw)
    /\ (ut[t].pc = "open" /\ ut'[t].pc # "open") =>
         /\ ut'[t].pc = "addAll"
         /\ pendingPut'[t] = StoredBundle(ut[t].raw)

====
